---------------------------- MODULE Spec2Model ----------------------------
(***************************************************************************)
(* A model of capsule's DeploymentProcess                                  *)
(* (src/src/deployment/deployment_process.rs): prepare_recipe builds a     *)
(* chained batch of transactions (one per file-located cell, then one per  *)
(* dep group) together with the recipe; execute_recipe replays the batch   *)
(* to the ledger.  One action models one call or one loop iteration of the *)
(* code.  The wallet and the ledger node are collaborators whose code is   *)
(* not part of the source file; they are modelled from their contracts.    *)
(***************************************************************************)
EXTENDS Integers, Sequences, FiniteSets, TLC

(***************************************************************************)
(* Bounds of the model.                                                    *)
(***************************************************************************)
\* cells plus dep groups declared in the deployment configuration
MaxArtifacts == 3
\* cell names listed by one dep group
MaxRefs == 2
\* entries of pre_inputs_cells
MaxPreInputs == 2
\* calls of execute_recipe after one prepare_recipe
MaxRuns == 2
\* failures injected by the environment (file system, ledger RPC, tx_check)
MaxFaults == 1

CellNames == <<"a", "b", "c", "d", "e">>
DepGroupNames == <<"g", "h", "i", "j", "k">>
UnknownName == "z"

(***************************************************************************)
(* Generic helpers.                                                        *)
(***************************************************************************)
Range(s) == {s[i] : i \in DOMAIN s}

SeqsUpTo(S, n) == UNION {[1..k -> S] : k \in 0..n}

IsInjective(s) == \A i, j \in DOMAIN s : s[i] = s[j] => i = j

Min(S) == CHOOSE x \in S : \A y \in S : x <= y

\* the first index of s whose element satisfies P, or 0 (Iterator::find / position)
FirstIndex(s, P(_)) ==
    IF \E i \in DOMAIN s : P(s[i])
    THEN Min({i \in DOMAIN s : P(s[i])})
    ELSE 0

\* the increasing sequence of the elements of a finite set of integers
RECURSIVE SortedSeq(_)
SortedSeq(S) == IF S = {} THEN <<>> ELSE <<Min(S)>> \o SortedSeq(S \ {Min(S)})

(***************************************************************************)
(* Scripts, hashes, out-points.                                            *)
(***************************************************************************)
TYPE_ID_CODE_HASH == "TYPE_ID"

\* the deployer wallet's lock script (Wallet::lock_script)
WalletLock == [code_hash |-> "secp256k1_blake160", hash_type |-> "type", args |-> <<"deployer">>]

\* a lock script the deployer cannot unlock
ForeignLock == [code_hash |-> "secp256k1_blake160", hash_type |-> "type", args |-> <<"other">>]

\* a hash is modelled by its preimage (collision free); the transactions that
\* are on the ledger before the run are numbered and have no modelled body
PriorHash(n) == [body |-> <<>>, prior |-> n]

\* TransactionView::hash: covers inputs, outputs, outputs data and cell deps
TxHash(tx) == [body |-> <<tx.inputs, tx.outputs, tx.outputs_data, tx.cell_deps>>, prior |-> 0]

OutPoint(tx_hash, index) == [tx_hash |-> tx_hash, index |-> index]

\* LiveCell::out_point / LiveCell::input (since = 0)
LiveOutPoint(live_cell) == OutPoint(live_cell.tx_hash, live_cell.index)

LiveCell(tx_hash, index, capacity) ==
    [tx_hash |-> tx_hash, index |-> index, capacity |-> capacity, mature |-> TRUE]

\* a test that recognises no script as a type-id script
is_type_id_script_never(script) == FALSE

is_type_id_script(script) ==
    script.code_hash = TYPE_ID_CODE_HASH /\ script.hash_type = "type"

\* blake2b(input || output_index) as the script args
build_type_id_script(input, output_index) ==
    [code_hash |-> TYPE_ID_CODE_HASH, hash_type |-> "type",
     args |-> <<input, output_index>>]

\* packed::Script::calc_script_hash
calc_script_hash(script) == [script_hash_of |-> script]

\* Bytes: the length and, for a serialized OutPointVec, the items
RawBytes(len) == [len |-> len, items |-> <<>>]

\* packed::OutPointVec::as_bytes: a 4 byte item count, then 36 bytes per out-point
PackOutPoints(out_points) == [len |-> 4 + 36 * Len(out_points), items |-> out_points]

\* the decoding of an OutPointVec: the item count comes from the length header
UnpackOutPoints(data) == SubSeq(data.items, 1, (data.len - 4) \div 36)

\* CellOutput::occupied_capacity, in bytes: 8 for the capacity field, the
\* scripts, and the data
occupied_capacity(lock, type_, data_len) ==
    8 + (33 + 20 * Len(lock.args)) + (IF type_ = <<>> THEN 0 ELSE 65) + data_len

CellOutput(lock, type_, capacity) == [lock |-> lock, type_ |-> type_, capacity |-> capacity]


(***************************************************************************)
(* The ledger before the run.  Transaction 1 holds a cell deployed by an   *)
(* earlier run (wallet lock, type-id script, data); transaction 2 holds a  *)
(* cell locked by somebody else; transactions 11, 12, ... hold the         *)
(* wallet's plain cells (no data, no type script); transactions 21, 22,    *)
(* ... hold the cells that the configuration locates by out-point.         *)
(***************************************************************************)
PriorTypeId == build_type_id_script(OutPoint(PriorHash(9), 0), 0)

PriorOutputs(n) ==
    IF n = 1 THEN <<CellOutput(WalletLock, <<PriorTypeId>>, 700)>>
    ELSE IF n = 2 THEN <<CellOutput(ForeignLock, <<PriorTypeId>>, 700)>>
    ELSE IF n > 20 THEN [i \in 1..(n - 19) |-> CellOutput(ForeignLock, <<>>, 700)]
    ELSE <<CellOutput(WalletLock, <<>>, 1000)>>

\* the outputs of a transaction, recovered from its hash
HashOutputs(h) == IF h.prior = 0 THEN h.body[2] ELSE PriorOutputs(h.prior)

PoolSize == 2 * MaxArtifacts

PoolCell(k) == LiveCell(PriorHash(10 + k), 0, 1000)

PriorIds == {1, 2} \cup {10 + k : k \in 1..PoolSize} \cup {20 + i : i \in 1..MaxArtifacts}

\* the candidate pre-selected inputs: a cell deployed earlier by this wallet,
\* and a cell locked by somebody else
PreCells == {LiveCell(PriorHash(1), 0, 700), LiveCell(PriorHash(2), 0, 700)}

(***************************************************************************)
(* The deployment configurations (config::Deployment) of the model.        *)
(***************************************************************************)
FileLocation(file) == [kind |-> "File", file |-> file, tx_hash |-> PriorHash(0), index |-> 0]

OutPointLocation(tx_hash, index) == [kind |-> "OutPoint", file |-> "", tx_hash |-> tx_hash, index |-> index]

CellSpec(name, location, enable_type_id) ==
    [name |-> name, location |-> location, enable_type_id |-> enable_type_id]

CellChoices(i) ==
    {CellSpec(CellNames[i], FileLocation(CellNames[i]), b) : b \in BOOLEAN}
      \cup {CellSpec(CellNames[i], OutPointLocation(PriorHash(20 + i), i), FALSE)}

CellLists(n) ==
    {c \in [1..n -> UNION {CellChoices(i) : i \in 1..n}] : \A i \in 1..n : c[i] \in CellChoices(i)}

RefLists(names) == {r \in SeqsUpTo(names \cup {UnknownName}, MaxRefs) : IsInjective(r)}

DepGroupLists(m, names) ==
    {g \in [1..m -> [name : {DepGroupNames[j] : j \in 1..m}, cells : RefLists(names)]] :
        \A j \in 1..m : g[j].name = DepGroupNames[j]}

DeploymentsOf(n, m) ==
    UNION {
      {[lock |-> l, cells |-> c, dep_groups |-> g] :
          l \in {WalletLock, ForeignLock},
          g \in DepGroupLists(m, {c[i].name : i \in 1..n})} :
      c \in CellLists(n)}

Deployments ==
    UNION {DeploymentsOf(p[1], p[2]) :
             p \in {q \in (0..MaxArtifacts) \X (0..MaxArtifacts) : q[1] + q[2] <= MaxArtifacts}}

\* the names of the artifacts a transaction is built for, in build order
BuiltNames(cfg) ==
    LET files == SelectSeq(cfg.cells, LAMBDA c : c.location.kind = "File")
    IN [i \in 1..Len(files) |-> files[i].name]
         \o [j \in 1..Len(cfg.dep_groups) |-> cfg.dep_groups[j].name]

PreInputSeq(names, f) ==
    LET kept == SelectSeq(names, LAMBDA x : x \in DOMAIN f)
    IN [i \in 1..Len(kept) |-> <<kept[i], f[kept[i]]>>]

PreInputLists(cfg, max) ==
    LET names == BuiltNames(cfg)
    IN {PreInputSeq(names, f) :
          f \in UNION {[S -> PreCells] :
                  S \in {T \in SUBSET Range(names) : Cardinality(T) <= max}}}

(***************************************************************************)
(* The state.                                                              *)
(***************************************************************************)
VARIABLES
    config,            \* DeploymentProcess.config
    pre_inputs,        \* the pre_inputs_cells argument of prepare_recipe
    file,              \* the file load_deployable_cells_data opens: readable, length
    chain,             \* the hashes of the transactions the ledger knows
    locked,            \* the out-points the wallet has reserved (lock_out_points)
    pc,                \* the position of the process
    cells,             \* prepare_recipe: the loaded (cell, data) pairs
    txs,               \* build_recipe: txs
    cell_recipes,      \* build_recipe: cell_recipes
    dep_group_recipes, \* build_recipe: dep_group_recipes
    offered,           \* the input_cells argument of each build_*_tx call that returned a transaction
    result,            \* what prepare_recipe returned
    run,               \* the number of execute_recipe calls started
    signed,            \* execute_recipe: the txs argument
    done,              \* execute_recipe: recipes of the current loop already handled
    exec_result,       \* what the last execute_recipe call returned
    faults,            \* ledger failures so far
    calls              \* the calls made to the wallet, the ledger and the file system

vars == <<config, pre_inputs, file, chain, locked, pc, cells, txs, cell_recipes,
          dep_group_recipes, offered, result, run, signed, done, exec_result, faults, calls>>

NoError == [kind |-> "none", name |-> "", group |-> ""]

Error(kind, name, group) == [kind |-> kind, name |-> name, group |-> group]

NoRecipe == [cell_recipes |-> <<>>, dep_group_recipes |-> <<>>]

\* a Result<(DeploymentRecipe, Vec<TransactionView>)>, or a panic
Returned(status, error, recipe, tx_list) ==
    [status |-> status, error |-> error, recipe |-> recipe, txs |-> tx_list]

\* a call of a collaborator: the operation, the transaction hash it is about
\* (PriorHash(0) when there is none) and its outcome
Call(op, hash, res) == [op |-> op, run |-> run, hash |-> hash, res |-> res]

(***************************************************************************)
(* The wallet (crate::wallet), from its contract: reserved out-points are  *)
(* never handed out by coin selection.                                     *)
(***************************************************************************)
\* Wallet::lock_out_points
lock_out_points(reserved, out_points) == reserved \cup out_points

\* Wallet::collect_live_cells: a plain cell of the wallet that is not reserved,
\* if the wallet has one (funds)
collect_live_cells(reserved, funds) ==
    LET free == {k \in 1..PoolSize : LiveOutPoint(PoolCell(k)) \notin reserved}
    IN IF funds /\ free # {} THEN <<PoolCell(Min(free))>> ELSE <<>>

\* Wallet::complete_tx_lock_deps: the cell dep of the wallet's lock script
complete_tx_lock_deps(tx) == [tx EXCEPT !.cell_deps = @ \o <<"secp256k1_dep_group">>]

\* Wallet::complete_tx_inputs: an input from coin selection when the
\* transaction has none to pay for its output, and a change output back to the
\* wallet when capacity is left over (env.change)
complete_tx_inputs(tx, reserved, env) ==
    LET more == IF tx.inputs = <<>> THEN collect_live_cells(reserved, env.funds) ELSE <<>>
        inputs == tx.inputs \o [i \in 1..Len(more) |-> LiveOutPoint(more[i])]
        change == CellOutput(WalletLock, <<>>, occupied_capacity(WalletLock, <<>>, 0))
    IN [ok |-> inputs # <<>>,
        tx |-> [tx EXCEPT !.inputs = inputs,
                          !.outputs = IF env.change THEN @ \o <<change>> ELSE @,
                          !.outputs_data = IF env.change THEN @ \o <<RawBytes(0)>> ELSE @]]

\* Wallet::lock_tx_inputs
lock_tx_inputs(reserved, tx) == reserved \cup Range(tx.inputs)

\* Wallet::query_transaction, when the RPC answers: whether the ledger knows
\* the transaction (is_some)
query_transaction(known, tx_hash) == tx_hash \in known

\* what the wallet and the ledger decide during one build step: whether coin
\* selection finds a cell, whether capacity is left over, whether the RPC
\* answers; a decision nobody asks for is left at TRUE
BuildEnvs(asks_funds, asks_rpc) ==
    {e \in [funds : BOOLEAN, change : BOOLEAN, rpc : BOOLEAN] :
        /\ ~asks_funds => e.funds
        /\ ~asks_rpc => e.rpc}

(***************************************************************************)
(* The builders.                                                           *)
(***************************************************************************)
\* a search that takes every output locked by the wallet, whatever its data
search_changes_any_data(tx) ==
    LET kept == SortedSeq({i \in 1..Len(tx.outputs) : tx.outputs[i].lock = WalletLock})
    IN [k \in 1..Len(kept) |->
          LiveCell(TxHash(tx), kept[k] - 1, tx.outputs[kept[k]].capacity)]

\* DeploymentProcess::search_changes
search_changes(tx) ==
    LET n == Len(tx.outputs)
        is_change(i) == /\ tx.outputs[i].lock = WalletLock
                        /\ tx.outputs_data[i].len = 0
                        /\ tx.outputs[i].type_ = <<>>
        kept == SortedSeq({i \in 1..n : is_change(i)})
    IN [k \in 1..Len(kept) |->
          LiveCell(TxHash(tx), kept[k] - 1, tx.outputs[kept[k]].capacity)]

EmptyTx == [inputs |-> <<>>, outputs |-> <<>>, outputs_data |-> <<>>, cell_deps |-> <<>>]

\* what a builder returns (status "ok" or "err") or how it panics, the
\* reservations it leaves in the wallet and the calls it made
Built(status, error, tx, reserved, made) ==
    [status |-> status, error |-> error, tx |-> tx, locked |-> reserved, calls |-> made]

\* the calls of the funding completion shared by both builders
completion_calls(tx, completed) ==
    <<Call("complete_tx_lock_deps", PriorHash(0), "ok"),
      Call("complete_tx_inputs", PriorHash(0), IF completed.ok THEN "ok" ELSE "panic")>>
      \o (IF completed.ok THEN <<Call("lock_tx_inputs", PriorHash(0), "ok")>> ELSE <<>>)

\* a builder that asks the wallet for an input whenever it was given none
seeds_from_wallet_always(cell, input_cells) == input_cells = <<>>

\* whether build_cell_tx asks coin selection for an input: type_id requires at
\* least one input
seeds_from_wallet(cell, input_cells) == cell.enable_type_id /\ input_cells = <<>>

\* DeploymentProcess::build_cell_tx
build_cell_tx(cell, data, input_cells, reserved, known, env) ==
    LET lock == config.lock
        reserved1 == lock_out_points(reserved, {LiveOutPoint(c) : c \in Range(input_cells)})
        calls1 == [i \in 1..Len(input_cells) |->
                     Call("lock_out_points", input_cells[i].tx_hash, "ok")]
        collect == seeds_from_wallet(cell, input_cells)
        inputs_cells == IF collect
                        THEN input_cells \o collect_live_cells(reserved1, env.funds)
                        ELSE input_cells
        reserved2 == IF collect
                     THEN lock_out_points(reserved1, {LiveOutPoint(c) : c \in Range(inputs_cells)})
                     ELSE reserved1
        calls2 == IF collect
                  THEN calls1 \o <<Call("collect_live_cells", PriorHash(0),
                                        IF inputs_cells = <<>> THEN "none" ELSE "some"),
                                   Call("lock_out_points", PriorHash(0), "ok")>>
                  ELSE calls1
        query(res) == <<Call("query_transaction", inputs_cells[1].tx_hash, res)>>
    IN IF cell.enable_type_id /\ inputs_cells = <<>>
       THEN Built("panic", Error("index out of bounds", cell.name, ""), EmptyTx,
                  reserved2, calls2)
       ELSE IF cell.enable_type_id /\ ~env.rpc
       THEN Built("err", Error("ledger", cell.name, ""), EmptyTx,
                  reserved2, calls2 \o query("err"))
       ELSE IF cell.enable_type_id /\ ~query_transaction(known, inputs_cells[1].tx_hash)
       THEN Built("panic", Error("tx", cell.name, ""), EmptyTx,
                  reserved2, calls2 \o query("none"))
       ELSE IF cell.enable_type_id
               /\ inputs_cells[1].index >= Len(HashOutputs(inputs_cells[1].tx_hash))
       THEN Built("panic", Error("output", cell.name, ""), EmptyTx,
                  reserved2, calls2 \o query("some"))
       ELSE
         LET type_ ==
               IF cell.enable_type_id
               THEN LET input_cell == inputs_cells[1]
                        input_cell_output ==
                            HashOutputs(input_cell.tx_hash)[input_cell.index + 1]
                    IN IF input_cell_output.type_ # <<>>
                          /\ is_type_id_script(input_cell_output.type_[1])
                       THEN <<input_cell_output.type_[1]>>
                       ELSE <<build_type_id_script(LiveOutPoint(input_cell), 0)>>
               ELSE <<>>
             output == CellOutput(lock, type_, occupied_capacity(lock, type_, data.len))
             tx == [inputs |-> [i \in 1..Len(inputs_cells) |-> LiveOutPoint(inputs_cells[i])],
                    outputs |-> <<output>>,
                    outputs_data |-> <<data>>,
                    cell_deps |-> <<>>]
             completed == complete_tx_inputs(complete_tx_lock_deps(tx), reserved2, env)
             calls3 == calls2 \o (IF cell.enable_type_id THEN query("some") ELSE <<>>)
                         \o completion_calls(tx, completed)
         IN IF ~completed.ok
            THEN Built("panic", Error("funding", cell.name, ""), EmptyTx, reserved2, calls3)
            ELSE Built("ok", NoError, completed.tx,
                       lock_tx_inputs(reserved2, completed.tx), calls3)

\* find_cell of build_dep_group_tx: the index of the first recipe with the name, or 0
find_cell(name, recipes) == FirstIndex(recipes, LAMBDA c : c.name = name)

\* a closure that unwraps the configured cell instead of returning the error
resolve_status_panics(name, recipes) ==
    IF FirstIndex(config.cells, LAMBDA c : c.name = name) = 0 THEN "panic" ELSE "ok"

\* the closure mapped over dep_group.cells: "ok", "err" (no such cell in the
\* configuration) or "panic" (a file-located cell without a recipe)
resolve_status(name, recipes) ==
    LET k == FirstIndex(config.cells, LAMBDA c : c.name = name)
    IN IF k = 0 THEN "err"
       ELSE IF config.cells[k].location.kind = "File" /\ find_cell(name, recipes) = 0
       THEN "panic"
       ELSE "ok"

\* a closure that points at output 0 of the located transaction
resolve_out_point_first_output(name, recipes) ==
    LET cell == config.cells[FirstIndex(config.cells, LAMBDA c : c.name = name)]
    IN IF cell.location.kind = "File"
       THEN OutPoint(recipes[find_cell(name, recipes)].tx_hash, 0)
       ELSE OutPoint(cell.location.tx_hash, 0)

\* the out-point the closure yields for a name whose status is "ok"
resolve_out_point(name, recipes) ==
    LET cell == config.cells[FirstIndex(config.cells, LAMBDA c : c.name = name)]
    IN IF cell.location.kind = "File"
       THEN LET cell_recipe == recipes[find_cell(name, recipes)]
            IN OutPoint(cell_recipe.tx_hash, cell_recipe.index)
       ELSE OutPoint(cell.location.tx_hash, cell.location.index)

\* DeploymentProcess::build_dep_group_tx
build_dep_group_tx(recipes, dep_group, input_cells, reserved, env) ==
    LET lock == config.lock
        names == dep_group.cells
        bad == {i \in 1..Len(names) : resolve_status(names[i], recipes) # "ok"}
    IN IF bad # {} /\ resolve_status(names[Min(bad)], recipes) = "err"
       THEN Built("err", Error("cell not found", names[Min(bad)], dep_group.name),
                  EmptyTx, reserved, <<>>)
       ELSE IF bad # {}
       THEN Built("panic", Error("must exists", names[Min(bad)], dep_group.name),
                  EmptyTx, reserved, <<>>)
       ELSE
         LET out_points == [i \in 1..Len(names) |-> resolve_out_point(names[i], recipes)]
             data == PackOutPoints(out_points)
             output == CellOutput(lock, <<>>, occupied_capacity(lock, <<>>, data.len))
             tx == [inputs |-> [i \in 1..Len(input_cells) |-> LiveOutPoint(input_cells[i])],
                    outputs |-> <<output>>,
                    outputs_data |-> <<data>>,
                    cell_deps |-> <<>>]
             completed == complete_tx_inputs(complete_tx_lock_deps(tx), reserved, env)
         IN IF ~completed.ok
            THEN Built("panic", Error("funding", dep_group.name, ""), EmptyTx, reserved,
                       completion_calls(tx, completed))
            ELSE Built("ok", NoError, completed.tx, lock_tx_inputs(reserved, completed.tx),
                       completion_calls(tx, completed))

\* a recipe builder that forgets the type-id
build_cell_recipe_untyped(tx, cell) ==
    [index |-> 0,
     name |-> cell.name,
     data_hash |-> [data_hash_of |-> tx.outputs_data[1]],
     occupied_capacity |->
         occupied_capacity(tx.outputs[1].lock, tx.outputs[1].type_, tx.outputs_data[1].len),
     tx_hash |-> TxHash(tx),
     type_id |-> <<>>]

\* build_cell_recipe
build_cell_recipe(tx, cell) ==
    LET index == 0
        cell_output == tx.outputs[index + 1]
        data == tx.outputs_data[index + 1]
    IN [index |-> index,
        name |-> cell.name,
        data_hash |-> [data_hash_of |-> data],
        occupied_capacity |-> occupied_capacity(cell_output.lock, cell_output.type_, data.len),
        tx_hash |-> TxHash(tx),
        type_id |-> IF cell.enable_type_id
                    THEN <<calc_script_hash(cell_output.type_[1])>>
                    ELSE <<>>]

\* build_dep_group_recipe
build_dep_group_recipe(tx, dep_group) ==
    LET index == 0
        data == tx.outputs_data[index + 1]
    IN [index |-> index,
        name |-> dep_group.name,
        occupied_capacity |->
            occupied_capacity(tx.outputs[index + 1].lock, tx.outputs[index + 1].type_, data.len),
        tx_hash |-> TxHash(tx)]

\* candidate inputs that take the changes of the first transaction of the batch
candidate_inputs_first(name, pre, built) ==
    LET k == FirstIndex(pre, LAMBDA e : e[1] = name)
    IN (IF k # 0 THEN <<pre[k][2]>> ELSE <<>>)
         \o (IF built # <<>> THEN search_changes(built[1]) ELSE <<>>)

\* the candidate inputs build_recipe gathers for the artifact called name: the
\* first pre-selected input with that name, then the changes of the last transaction
candidate_inputs(name, pre, built) ==
    LET k == FirstIndex(pre, LAMBDA e : e[1] = name)
    IN (IF k # 0 THEN <<pre[k][2]>> ELSE <<>>)
         \o (IF built # <<>> THEN search_changes(built[Len(built)]) ELSE <<>>)

(***************************************************************************)
(* prepare_recipe.                                                         *)
(***************************************************************************)
PayloadLens == {0, 500}

Files == {[readable |-> FALSE, len |-> 0]} \cup {[readable |-> TRUE, len |-> n] : n \in PayloadLens}

\* the state after DeploymentProcess::new, for the configurations D, the files F
\* and at most max pre-selected inputs
InitOf(D, F, max) ==
    /\ config \in D
    /\ pre_inputs \in PreInputLists(config, max)
    /\ file \in F
    /\ chain = {PriorHash(n) : n \in PriorIds}
    /\ locked = {}
    /\ pc = "check_pre_inputs"
    /\ cells = <<>>
    /\ txs = <<>>
    /\ cell_recipes = <<>>
    /\ dep_group_recipes = <<>>
    /\ offered = <<>>
    /\ result = Returned("none", NoError, NoRecipe, <<>>)
    /\ run = 0
    /\ signed = <<>>
    /\ done = 0
    /\ exec_result = "none"
    /\ faults = 0
    /\ calls = <<>>

\* a check that looks at the first pre-selected input only
first_unlockable_head(pre) ==
    IF pre # <<>> /\ HashOutputs(pre[1][2].tx_hash)[pre[1][2].index + 1].lock # WalletLock
    THEN 1
    ELSE 0

\* the index of the first pre-selected input the wallet cannot unlock, or 0
first_unlockable(pre) ==
    FirstIndex(pre, LAMBDA e : HashOutputs(e[2].tx_hash)[e[2].index + 1].lock # WalletLock)

\* DeploymentProcess::check_pre_inputs_unlockable, called by prepare_recipe
CheckPreInputs ==
    /\ pc = "check_pre_inputs"
    /\ LET k == first_unlockable(pre_inputs)
           n == IF k = 0 THEN Len(pre_inputs) ELSE k
       IN /\ calls' = calls \o [i \in 1..n |->
                                  Call("get_cell_output", pre_inputs[i][2].tx_hash, "ok")]
          /\ IF k = 0
             THEN pc' = "load" /\ UNCHANGED result
             ELSE /\ pc' = "returned"
                  /\ result' = Returned("err", Error("unlockable", pre_inputs[k][1], ""),
                                        NoRecipe, <<>>)
    /\ UNCHANGED <<config, pre_inputs, file, chain, locked, cells, txs, cell_recipes,
                   dep_group_recipes, offered, run, signed, done, exec_result, faults>>

\* a loader that does not skip the cells located by out-point
load_deployable_cells_data_all(cell_list, data) ==
    [i \in 1..Len(cell_list) |-> <<cell_list[i], data>>]

\* load_deployable_cells_data, when the file is readable: every file-located
\* cell gets the bytes of the one file the function opens
load_deployable_cells_data(cell_list, data) ==
    LET files == SelectSeq(cell_list, LAMBDA c : c.location.kind = "File")
    IN [i \in 1..Len(files) |-> <<files[i], data>>]

\* a loader that opens the payload file before it looks at the cells
LoadCells_opens_first ==
    /\ pc = "load"
    /\ IF file.readable
       THEN /\ cells' = load_deployable_cells_data(config.cells, RawBytes(file.len))
            /\ calls' = calls \o [i \in 1..(Len(cells') + 1) |->
                                    Call("read_file", PriorHash(0), "ok")]
            /\ pc' = "build_recipe"
            /\ UNCHANGED result
       ELSE /\ calls' = calls \o <<Call("read_file", PriorHash(0), "err")>>
            /\ pc' = "returned"
            /\ result' = Returned("err", Error("io", "", ""), NoRecipe, <<>>)
            /\ UNCHANGED cells
    /\ UNCHANGED <<config, pre_inputs, file, chain, locked, txs, cell_recipes,
                   dep_group_recipes, offered, run, signed, done, exec_result, faults>>

LoadCells ==
    /\ pc = "load"
    /\ LET files == SelectSeq(config.cells, LAMBDA c : c.location.kind = "File")
       IN IF file.readable \/ files = <<>>
          THEN /\ cells' = load_deployable_cells_data(config.cells, RawBytes(file.len))
               /\ calls' = calls \o [i \in 1..Len(files) |->
                                       Call("read_file", PriorHash(0), "ok")]
               /\ pc' = "build_recipe"
               /\ UNCHANGED result
          ELSE /\ calls' = calls \o <<Call("read_file", PriorHash(0), "err")>>
               /\ pc' = "returned"
               /\ result' = Returned("err", Error("io", files[1].name, ""), NoRecipe, <<>>)
               /\ UNCHANGED cells
    /\ UNCHANGED <<config, pre_inputs, file, chain, locked, txs, cell_recipes,
                   dep_group_recipes, offered, run, signed, done, exec_result, faults>>

\* one iteration of build_recipe's loop over the cells
BuildCell ==
    /\ pc = "build_recipe"
    /\ Len(cell_recipes) < Len(cells)
    /\ LET cell == cells[Len(cell_recipes) + 1][1]
           data == cells[Len(cell_recipes) + 1][2]
           input_cells == candidate_inputs(cell.name, pre_inputs, txs)
       IN \E env \in BuildEnvs(input_cells = <<>>, cell.enable_type_id) :
         LET built == build_cell_tx(cell, data, input_cells, locked, chain, env)
         IN /\ locked' = built.locked
            /\ calls' = calls \o built.calls
            /\ IF built.status = "ok"
               THEN /\ txs' = Append(txs, built.tx)
                    /\ cell_recipes' = Append(cell_recipes, build_cell_recipe(built.tx, cell))
                    /\ offered' = Append(offered, input_cells)
                    /\ UNCHANGED <<pc, result>>
               ELSE \* .expect("cell deployment tx") turns an error into a panic
                    /\ pc' = "returned"
                    /\ result' = Returned("panic", built.error, NoRecipe, <<>>)
                    /\ UNCHANGED <<txs, cell_recipes, offered>>
    /\ UNCHANGED <<config, pre_inputs, file, chain, cells, dep_group_recipes, run, signed,
                   done, exec_result, faults>>

\* one iteration of build_recipe's loop over the dep groups
BuildDepGroup ==
    /\ pc = "build_recipe"
    /\ Len(cell_recipes) = Len(cells)
    /\ Len(dep_group_recipes) < Len(config.dep_groups)
    /\ LET dep_group == config.dep_groups[Len(dep_group_recipes) + 1]
           input_cells == candidate_inputs(dep_group.name, pre_inputs, txs)
       IN \E env \in BuildEnvs(input_cells = <<>>, FALSE) :
         LET built == build_dep_group_tx(cell_recipes, dep_group, input_cells, locked, env)
         IN /\ locked' = built.locked
            /\ calls' = calls \o built.calls
            /\ IF built.status = "ok"
               THEN /\ txs' = Append(txs, built.tx)
                    /\ dep_group_recipes' =
                         Append(dep_group_recipes, build_dep_group_recipe(built.tx, dep_group))
                    /\ offered' = Append(offered, input_cells)
                    /\ UNCHANGED <<pc, result>>
               ELSE /\ pc' = "returned"
                    /\ result' = Returned(built.status, built.error, NoRecipe, <<>>)
                    /\ UNCHANGED <<txs, dep_group_recipes, offered>>
    /\ UNCHANGED <<config, pre_inputs, file, chain, cells, cell_recipes, run, signed,
                   done, exec_result, faults>>

\* a prepare_recipe that returns the recipe whatever tx_check says
prepare_result_unchecked(failed_at, recipe, tx_list) ==
    Returned("ok", NoError, recipe, tx_list)

\* what prepare_recipe returns once build_recipe has returned (recipe, tx_list):
\* the ? on tx_check returns the error of the first transaction that fails
\* the check (failed_at, 0 when none fails)
prepare_result(failed_at, recipe, tx_list) ==
    IF failed_at = 0
    THEN Returned("ok", NoError, recipe, tx_list)
    ELSE Returned("err", Error("tx_check", "", ""), NoRecipe, <<>>)

\* the end of build_recipe, and prepare_recipe's tx_check of every transaction
CheckTxs ==
    /\ pc = "build_recipe"
    /\ Len(cell_recipes) = Len(cells)
    /\ Len(dep_group_recipes) = Len(config.dep_groups)
    /\ pc' = "returned"
    /\ \E failed_at \in 0..Len(txs) :
         LET checked == IF failed_at = 0 THEN Len(txs) ELSE failed_at
             recipe == [cell_recipes |-> cell_recipes,
                        dep_group_recipes |-> dep_group_recipes]
         IN /\ result' = prepare_result(failed_at, recipe, txs)
            /\ calls' = calls \o [i \in 1..checked |->
                                    Call("tx_check", TxHash(txs[i]),
                                         IF i = failed_at THEN "err" ELSE "ok")]
    /\ UNCHANGED <<config, pre_inputs, file, chain, locked, cells, txs, cell_recipes,
                   dep_group_recipes, offered, run, signed, done, exec_result, faults>>

(***************************************************************************)
(* execute_recipe, called with what prepare_recipe returned (sign_txs adds *)
(* witnesses, which the transaction hash does not cover).                  *)
(***************************************************************************)
\* a lookup that takes the first transaction of the list, whatever its hash
find_tx_first(tx_list, tx_hash) == IF tx_list = <<>> THEN 0 ELSE 1

\* txs.iter().find(|tx| recipe.tx_hash == tx.hash()): the index, or 0
find_tx(tx_list, tx_hash) == FirstIndex(tx_list, LAMBDA tx : TxHash(tx) = tx_hash)

\* DeploymentProcess::sign_txs: the witnesses are not part of the hash
sign_txs(tx_list) == tx_list

\* the caller signs the transactions and starts execute_recipe
StartExecute ==
    /\ \/ pc = "returned" /\ result.status = "ok"
       \/ pc = "exec_returned"
    /\ run < MaxRuns
    /\ run' = run + 1
    /\ signed' = sign_txs(result.txs)
    /\ done' = 0
    /\ exec_result' = "running"
    /\ pc' = "execute_recipe"
    /\ UNCHANGED <<config, pre_inputs, file, chain, locked, cells, txs, cell_recipes,
                   dep_group_recipes, offered, result, faults, calls>>

\* a cell loop that walks recipe.cell_recipes from the back
next_cell_recipe_reversed(recipe, handled) ==
    recipe.cell_recipes[Len(recipe.cell_recipes) - handled]

\* the recipe the cell loop handles after `handled` recipes
next_cell_recipe(recipe, handled) == recipe.cell_recipes[handled + 1]

\* the recipe the dep group loop handles after `handled` recipes of both loops
next_dep_group_recipe(recipe, handled) ==
    recipe.dep_group_recipes[handled - Len(recipe.cell_recipes) + 1]

\* a cell loop whose existence query is not commented out
cell_loop_queries_enabled == TRUE

\* whether the cell loop asks the ledger for the transaction before sending it
\* (the query is commented out in the source)
cell_loop_queries == FALSE

\* a dep group loop that never skips
skip_known_never(known, tx_hash) == FALSE

\* whether the dep group loop skips a transaction the ledger knows
skip_known(known, tx_hash) == query_transaction(known, tx_hash)

\* a sending step that logs a failed send_transaction and goes on with the loop
SendRecipeTx_continue(tx_hash, before) ==
    LET k == find_tx(signed, tx_hash)
    IN \E accepted \in BOOLEAN :
         /\ k # 0
         /\ ~accepted => faults < MaxFaults
         /\ faults' = IF accepted THEN faults ELSE faults + 1
         /\ calls' = calls \o before
                       \o <<Call("send_transaction", TxHash(signed[k]),
                                 IF accepted THEN "ok" ELSE "err")>>
         /\ chain' = IF accepted THEN chain \cup {TxHash(signed[k])} ELSE chain
         /\ done' = done + 1
         /\ UNCHANGED <<pc, exec_result>>

\* the (i/n) Sending ... part of an iteration: find the transaction, send it
SendRecipeTx(tx_hash, before) ==
    LET k == find_tx(signed, tx_hash)
    IN IF k = 0
       THEN \* .expect("missing recipe tx")
            /\ calls' = calls \o before
            /\ pc' = "exec_returned"
            /\ exec_result' = "panic"
            /\ UNCHANGED <<chain, done, faults>>
       ELSE \/ \* the ledger accepts the transaction
               /\ calls' = calls \o before
                             \o <<Call("send_transaction", TxHash(signed[k]), "ok")>>
               /\ chain' = chain \cup {TxHash(signed[k])}
               /\ done' = done + 1
               /\ UNCHANGED <<pc, exec_result, faults>>
            \/ \* send_transaction fails: the ? returns the error
               /\ faults < MaxFaults
               /\ faults' = faults + 1
               /\ calls' = calls \o before
                             \o <<Call("send_transaction", TxHash(signed[k]), "err")>>
               /\ pc' = "exec_returned"
               /\ exec_result' = "err"
               /\ UNCHANGED <<chain, done>>

\* an iteration whose query_transaction fails, or finds the transaction
QueryRecipeTx(tx_hash) ==
    \/ \* the query fails: the ? returns the error
       /\ faults < MaxFaults
       /\ faults' = faults + 1
       /\ calls' = calls \o <<Call("query_transaction", tx_hash, "err")>>
       /\ pc' = "exec_returned"
       /\ exec_result' = "err"
       /\ UNCHANGED <<chain, done>>
    \/ \* the ledger knows the transaction: continue
       /\ skip_known(chain, tx_hash)
       /\ calls' = calls \o <<Call("query_transaction", tx_hash, "some")>>
       /\ done' = done + 1
       /\ UNCHANGED <<chain, pc, exec_result, faults>>

\* one iteration of execute_recipe's loop over recipe.cell_recipes
ExecCell ==
    /\ pc = "execute_recipe"
    /\ done < Len(result.recipe.cell_recipes)
    /\ LET tx_hash == next_cell_recipe(result.recipe, done).tx_hash
       IN IF cell_loop_queries
          THEN \/ QueryRecipeTx(tx_hash)
               \/ /\ ~skip_known(chain, tx_hash)
                  /\ SendRecipeTx(tx_hash, <<Call("query_transaction", tx_hash, "none")>>)
          ELSE SendRecipeTx(tx_hash, <<>>)
    /\ UNCHANGED <<config, pre_inputs, file, locked, cells, txs, cell_recipes,
                   dep_group_recipes, offered, result, run, signed>>

\* one iteration of execute_recipe's loop over recipe.dep_group_recipes
ExecDepGroup ==
    /\ pc = "execute_recipe"
    /\ done >= Len(result.recipe.cell_recipes)
    /\ done < Len(result.recipe.cell_recipes) + Len(result.recipe.dep_group_recipes)
    /\ LET tx_hash == next_dep_group_recipe(result.recipe, done).tx_hash
       IN \/ QueryRecipeTx(tx_hash)
          \/ /\ ~skip_known(chain, tx_hash)
             /\ SendRecipeTx(tx_hash, <<Call("query_transaction", tx_hash, "none")>>)
    /\ UNCHANGED <<config, pre_inputs, file, locked, cells, txs, cell_recipes,
                   dep_group_recipes, offered, result, run, signed>>

\* execute_recipe returns Ok(()) after both loops
ExecReturn ==
    /\ pc = "execute_recipe"
    /\ done = Len(result.recipe.cell_recipes) + Len(result.recipe.dep_group_recipes)
    /\ pc' = "exec_returned"
    /\ exec_result' = "ok"
    /\ UNCHANGED <<config, pre_inputs, file, chain, locked, cells, txs, cell_recipes,
                   dep_group_recipes, offered, result, run, signed, done, faults, calls>>

(***************************************************************************)
(* The specifications.  SpecBuild runs prepare_recipe on the                *)
(* configurations locked by the deployer's own lock, with up to            *)
(* MaxPreInputs pre-selected inputs; Spec runs prepare_recipe and then     *)
(* execute_recipe, up to MaxRuns times, on a smaller set of                *)
(* configurations.                                                         *)
(***************************************************************************)
NextBuild == CheckPreInputs \/ LoadCells \/ BuildCell \/ BuildDepGroup \/ CheckTxs

NextExecute == StartExecute \/ ExecCell \/ ExecDepGroup \/ ExecReturn

Next == NextBuild \/ NextExecute

\* the file is unreadable, or holds a payload of 500 bytes
PayloadFiles == {f \in Files : f.readable => f.len = 500}

BuildDeployments == {d \in Deployments : d.lock = WalletLock}

InitBuild == InitOf(BuildDeployments, PayloadFiles, MaxPreInputs)

SpecBuild == InitBuild /\ [][NextBuild]_vars

\* the configurations of Spec: the deployer's own lock, file-located cells
\* without type-id, dep groups of at most one cell
ExecDeployments ==
    {d \in Deployments :
        /\ d.lock = WalletLock
        /\ \A i \in DOMAIN d.cells :
             d.cells[i].location.kind = "File" /\ ~d.cells[i].enable_type_id
        /\ \A j \in DOMAIN d.dep_groups : Len(d.dep_groups[j].cells) <= 1}

Init == InitOf(ExecDeployments, PayloadFiles, 0)

Spec == Init /\ [][Next]_vars

(***************************************************************************)
(* SpecSupplied runs prepare_recipe and then execute_recipe with a caller  *)
(* that may hand execute_recipe a transaction list that lacks some         *)
(* transactions of the batch.                                              *)
(***************************************************************************)
\* the subsequence of s at the positions in keep
Restrict(s, keep) ==
    LET idx == SortedSeq(keep) IN [n \in DOMAIN idx |-> s[idx[n]]]

\* the lists a caller may supply: the signed batch, or a part of it
SuppliedLists(tx_list) ==
    {Restrict(sign_txs(tx_list), keep) : keep \in SUBSET DOMAIN tx_list}

\* the caller starts execute_recipe with the recipe and a list of its choice
StartExecuteSupplied ==
    /\ \/ pc = "returned" /\ result.status = "ok"
       \/ pc = "exec_returned"
    /\ run < MaxRuns
    /\ run' = run + 1
    /\ signed' \in SuppliedLists(result.txs)
    /\ done' = 0
    /\ exec_result' = "running"
    /\ pc' = "execute_recipe"
    /\ UNCHANGED <<config, pre_inputs, file, chain, locked, cells, txs, cell_recipes,
                   dep_group_recipes, offered, result, faults, calls>>

NextSupplied ==
    NextBuild \/ StartExecuteSupplied \/ ExecCell \/ ExecDepGroup \/ ExecReturn

\* the configurations of SpecSupplied: those of Spec whose dep groups list no
\* cell (execute_recipe does not look at the data of a transaction)
SuppliedDeployments ==
    {d \in ExecDeployments : \A j \in DOMAIN d.dep_groups : d.dep_groups[j].cells = <<>>}

InitSupplied == InitOf(SuppliedDeployments, PayloadFiles, 0)

SpecSupplied == InitSupplied /\ [][NextSupplied]_vars

(***************************************************************************)
(* SpecEdge runs prepare_recipe at the edges of its input space: either    *)
(* lock for the deployed cells, an unreadable, an empty or a 500 byte      *)
(* payload file, file-located cells, dep groups that list no cell, and at  *)
(* most one pre-selected input, which may carry a name that no artifact of *)
(* the configuration has (a cell that was removed from the configuration   *)
(* since it was deployed).                                                 *)
(***************************************************************************)
EdgeDeployments ==
    {d \in Deployments :
        /\ \A i \in DOMAIN d.cells : d.cells[i].location.kind = "File"
        /\ \A j \in DOMAIN d.dep_groups : d.dep_groups[j].cells = <<>>}

\* no pre-selected input, or one, for an artifact or for a name without artifact
EdgePreInputLists(cfg) ==
    {<<>>} \cup {<<<<n, c>>>> : n \in Range(BuiltNames(cfg)) \cup {UnknownName}, c \in PreCells}

InitEdge ==
    /\ config \in EdgeDeployments
    /\ pre_inputs \in EdgePreInputLists(config)
    /\ file \in Files
    /\ chain = {PriorHash(n) : n \in PriorIds}
    /\ locked = {}
    /\ pc = "check_pre_inputs"
    /\ cells = <<>>
    /\ txs = <<>>
    /\ cell_recipes = <<>>
    /\ dep_group_recipes = <<>>
    /\ offered = <<>>
    /\ result = Returned("none", NoError, NoRecipe, <<>>)
    /\ run = 0
    /\ signed = <<>>
    /\ done = 0
    /\ exec_result = "none"
    /\ faults = 0
    /\ calls = <<>>

SpecEdge == InitEdge /\ [][NextBuild]_vars

(***************************************************************************)
(* Vocabulary of the properties, stated on the observable state (the       *)
(* batch, the recipes, the calls made) and not on the builders.            *)
(***************************************************************************)
\* the ledger before prepare_recipe
PriorChain == {PriorHash(n) : n \in PriorIds}

BatchHashes == {TxHash(txs[i]) : i \in DOMAIN txs}

\* the position in the batch of the transaction with hash h
BuildIndex(h) == CHOOSE i \in DOMAIN txs : TxHash(txs[i]) = h

IsSend(c) == c.op = "send_transaction"

IsExecQuery(c) == c.op = "query_transaction" /\ c.run >= 1

CellTxHashes == {cell_recipes[i].tx_hash : i \in DOMAIN cell_recipes}

DepGroupTxHashes == {dep_group_recipes[j].tx_hash : j \in DOMAIN dep_group_recipes}

\* the name of the artifact transaction k was built for
ArtifactOf(k) ==
    IF k <= Len(cell_recipes)
    THEN cell_recipes[k].name
    ELSE dep_group_recipes[k - Len(cell_recipes)].name

\* the pre-selected input of the artifact called name, as a sequence of 0 or 1
PreSelectedFor(name) ==
    LET S == {i \in DOMAIN pre_inputs : pre_inputs[i][1] = name}
    IN IF S = {} THEN <<>> ELSE <<pre_inputs[Min(S)][2]>>

\* the change outputs of a transaction: locked by the wallet, no data, no type script
ChangeIndexes(tx) ==
    {i \in DOMAIN tx.outputs :
        /\ tx.outputs[i].lock = WalletLock
        /\ tx.outputs_data[i].len = 0
        /\ tx.outputs[i].type_ = <<>>}

ChangeCells(tx) ==
    LET idx == SortedSeq(ChangeIndexes(tx))
    IN [n \in DOMAIN idx |->
          [tx_hash |-> TxHash(tx), index |-> idx[n] - 1,
           capacity |-> tx.outputs[idx[n]].capacity, mature |-> TRUE]]

\* the lock of the cell a pre-selected input points at
LockOf(live_cell) == HashOutputs(live_cell.tx_hash)[live_cell.index + 1].lock

MismatchedNames ==
    {pre_inputs[i][1] : i \in {n \in DOMAIN pre_inputs : LockOf(pre_inputs[n][2]) # WalletLock}}

\* the cell of the configuration called name
ConfiguredCell(name) == CHOOSE c \in Range(config.cells) : c.name = name

(***************************************************************************)
(* C1: within one execute_recipe call the transactions are submitted in    *)
(* build order (cells in recipe order, then dep groups in recipe order),   *)
(* and when a transaction is submitted every batch transaction whose      *)
(* output it spends is already known to the ledger.                        *)
(***************************************************************************)
C1_SubmissionFollowsBuildOrder ==
    /\ \A i, j \in DOMAIN calls :
         (/\ i < j
          /\ IsSend(calls[i]) /\ IsSend(calls[j])
          /\ calls[i].run = calls[j].run)
         => BuildIndex(calls[i].hash) < BuildIndex(calls[j].hash)
    /\ \A j \in DOMAIN calls :
         IsSend(calls[j]) =>
           \A inp \in Range(txs[BuildIndex(calls[j].hash)].inputs) :
             inp.tx_hash \in BatchHashes =>
               \E i \in 1..(j - 1) :
                 /\ IsSend(calls[i]) /\ calls[i].res = "ok"
                 /\ calls[i].hash = inp.tx_hash

\* one call submits a cell transaction and then the dep group transaction
\* that spends its change
C1_Witness ==
    \E i, j \in DOMAIN calls :
      /\ i < j
      /\ IsSend(calls[i]) /\ IsSend(calls[j])
      /\ calls[i].run = calls[j].run
      /\ calls[i].hash \in CellTxHashes
      /\ calls[j].hash \in DepGroupTxHashes
      /\ \E inp \in Range(txs[BuildIndex(calls[j].hash)].inputs) :
           inp.tx_hash = calls[i].hash

(***************************************************************************)
(* C2, as stated: the candidate inputs offered to transaction k+1 are      *)
(* exactly the change outputs of transaction k.                            *)
(***************************************************************************)
C2_OfferedIsChangeOnly ==
    \A k \in 1..(Len(txs) - 1) : offered[k + 1] = ChangeCells(txs[k])

(***************************************************************************)
(* C2, amended: the candidate inputs offered to transaction k+1 are the    *)
(* pre-selected input of its artifact, if there is one, followed by        *)
(* exactly the change outputs of transaction k in output order; change of  *)
(* an older transaction is never offered.  The first transaction is        *)
(* offered its pre-selected input only.                                    *)
(***************************************************************************)
C2_OfferedIsPreSelectedThenChange ==
    /\ Len(offered) = Len(txs)
    /\ \A k \in DOMAIN txs :
         offered[k] = PreSelectedFor(ArtifactOf(k))
                        \o (IF k = 1 THEN <<>> ELSE ChangeCells(txs[k - 1]))
    /\ \A k \in DOMAIN txs : \A c \in Range(offered[k]) :
         c.tx_hash \in BatchHashes => k > 1 /\ c.tx_hash = TxHash(txs[k - 1])

\* a third transaction that is offered a pre-selected input and the change of
\* the second, while the first transaction had change too
C2_Witness ==
    /\ Len(txs) >= 3
    /\ ChangeCells(txs[1]) # <<>>
    /\ ChangeCells(txs[2]) # <<>>
    /\ PreSelectedFor(ArtifactOf(3)) # <<>>
    /\ Len(offered[3]) = 2

(***************************************************************************)
(* C3, as stated: no out-point is consumed twice within one build_recipe   *)
(* run, neither by two transactions of the batch nor twice by one.         *)
(***************************************************************************)
C3_NoOutPointConsumedTwice ==
    \A i, j \in DOMAIN txs :
      \A a \in DOMAIN txs[i].inputs, b \in DOMAIN txs[j].inputs :
        txs[i].inputs[a] = txs[j].inputs[b] => i = j /\ a = b

(***************************************************************************)
(* C4: every input of transaction j that references a transaction of the   *)
(* batch references transaction j-1; no transaction spends an output of    *)
(* itself or of a later transaction.                                       *)
(***************************************************************************)
C4_BatchInputsSpendPredecessor ==
    \A j \in DOMAIN txs : \A inp \in Range(txs[j].inputs) :
      inp.tx_hash \in BatchHashes =>
        /\ j > 1
        /\ inp.tx_hash = TxHash(txs[j - 1])
        /\ \A i \in j..Len(txs) :
             inp.tx_hash = TxHash(txs[i]) => TxHash(txs[i]) = TxHash(txs[j - 1])

\* three transactions, the second spending the first and the third the second
C4_Witness ==
    /\ Len(txs) = 3
    /\ \E inp \in Range(txs[2].inputs) : inp.tx_hash = TxHash(txs[1])
    /\ \E inp \in Range(txs[3].inputs) : inp.tx_hash = TxHash(txs[2])
    /\ TxHash(txs[1]) # TxHash(txs[2])

C6_DepGroupSubmittedIffUnknown ==
    /\ \A j \in DOMAIN calls :
         (IsSend(calls[j]) /\ calls[j].hash \in DepGroupTxHashes) =>
           /\ j > 1
           /\ calls[j - 1] = [op |-> "query_transaction", run |-> calls[j].run,
                              hash |-> calls[j].hash, res |-> "none"]
           /\ \A i \in 1..(j - 1) :
                ~(IsSend(calls[i]) /\ calls[i].res = "ok" /\ calls[i].hash = calls[j].hash)
    /\ \A j \in DOMAIN calls :
         (IsExecQuery(calls[j]) /\ calls[j].res = "none") =>
           /\ j < Len(calls)
           /\ IsSend(calls[j + 1])
           /\ calls[j + 1].hash = calls[j].hash
           /\ calls[j + 1].run = calls[j].run
    /\ \A j \in DOMAIN calls :
         (IsExecQuery(calls[j]) /\ calls[j].res = "some") =>
           /\ calls[j].hash \in chain
           /\ j < Len(calls) => ~(IsSend(calls[j + 1]) /\ calls[j + 1].hash = calls[j].hash)
           /\ \A i \in DOMAIN calls :
                (IsSend(calls[i]) /\ calls[i].hash = calls[j].hash) => i < j

\* a second call finds the dep group transaction the first call submitted,
\* skips it, and returns without any dep group submission of its own
C6_Witness ==
    /\ pc = "exec_returned" /\ exec_result = "ok" /\ run = 2
    /\ dep_group_recipes # <<>>
    /\ \A h \in DepGroupTxHashes :
         /\ \E c \in Range(calls) : IsSend(c) /\ c.run = 1 /\ c.hash = h /\ c.res = "ok"
         /\ \E c \in Range(calls) : IsExecQuery(c) /\ c.run = 2 /\ c.hash = h /\ c.res = "some"
         /\ ~\E c \in Range(calls) : IsSend(c) /\ c.run = 2 /\ c.hash = h

(***************************************************************************)
(* C7: execute_recipe never queries the ledger for a cell transaction; in  *)
(* every call, each cell recipe the loop has handled was submitted in that *)
(* call, whether or not the ledger already knew its transaction.           *)
(***************************************************************************)
C7_CellsResubmittedWithoutQuery ==
    /\ \A c \in Range(calls) : IsExecQuery(c) => c.hash \notin CellTxHashes
    /\ pc \in {"execute_recipe", "exec_returned"} =>
         \A i \in 1..Min({done, Len(cell_recipes)}) :
           \E c \in Range(calls) :
             IsSend(c) /\ c.run = run /\ c.hash = cell_recipes[i].tx_hash

\* a cell transaction accepted in the first call is submitted again in the second
C7_Witness ==
    \E h \in CellTxHashes :
      /\ \E c \in Range(calls) : IsSend(c) /\ c.run = 1 /\ c.hash = h /\ c.res = "ok"
      /\ \E c \in Range(calls) : IsSend(c) /\ c.run = 2 /\ c.hash = h

(***************************************************************************)
(* C8: when a submission or a dep group query fails, the call returns the  *)
(* error and makes no further call to the ledger (nothing later is         *)
(* submitted, nothing is retried); the transactions accepted before the    *)
(* failure stay known to the ledger.                                       *)
(***************************************************************************)
C8_FailureAbortsRestOfBatch ==
    /\ \A i \in DOMAIN calls :
         (calls[i].run >= 1 /\ calls[i].res = "err") =>
           /\ \A j \in DOMAIN calls : j > i => calls[j].run > calls[i].run
           /\ calls[i].run = run => pc = "exec_returned" /\ exec_result = "err"
    /\ exec_result = "err" =>
         /\ calls # <<>>
         /\ calls[Len(calls)].run = run
         /\ calls[Len(calls)].res = "err"
    /\ \A c \in Range(calls) : (IsSend(c) /\ c.res = "ok") => c.hash \in chain

\* a call fails after its first submission was accepted and before the last
\* transaction of the batch was reached
C8_Witness ==
    /\ exec_result = "err"
    /\ Len(txs) >= 3
    /\ \E i \in DOMAIN calls :
         /\ IsSend(calls[i]) /\ calls[i].run = run /\ calls[i].res = "ok"
         /\ calls[i].hash \in chain
    /\ ~\E c \in Range(calls) : c.run = run /\ c.hash = TxHash(txs[Len(txs)])

(***************************************************************************)
(* C9: when a pre-selected input is locked by a script other than the      *)
(* wallet's lock, prepare_recipe returns an error naming an artifact with  *)
(* such an input, and has by then read no file, built no transaction and   *)
(* reserved no out-point; when every pre-selected input is locked by the   *)
(* wallet's lock the check passes.                                         *)
(***************************************************************************)
C9_MismatchedPreInputFailsFast ==
    pc # "check_pre_inputs" =>
      IF MismatchedNames # {}
      THEN /\ pc = "returned"
           /\ result.status = "err"
           /\ result.error.kind = "unlockable"
           /\ result.error.name \in MismatchedNames
           /\ cells = <<>> /\ txs = <<>> /\ offered = <<>>
           /\ cell_recipes = <<>> /\ dep_group_recipes = <<>>
           /\ locked = {}
           /\ \A c \in Range(calls) : c.op = "get_cell_output"
      ELSE /\ result.error.kind # "unlockable"
           /\ Len(calls) >= Len(pre_inputs)
           /\ \A i \in DOMAIN pre_inputs : calls[i].op = "get_cell_output"

\* the second of two pre-selected inputs is the one locked by somebody else
C9_Witness ==
    /\ pc = "returned"
    /\ result.error.kind = "unlockable"
    /\ Len(pre_inputs) = 2
    /\ LockOf(pre_inputs[1][2]) = WalletLock
    /\ LockOf(pre_inputs[2][2]) # WalletLock

(***************************************************************************)
(* C10: the out-point list decoded from the data of a dep group            *)
(* transaction's first output has the length and the order of the dep      *)
(* group's cell names; its i-th entry is (tx_hash of this run's recipe of  *)
(* the i-th cell, 0) for a file-located cell, and the configured out-point *)
(* for a cell located by out-point.                                        *)
(***************************************************************************)
C10_DepGroupDataListsCellsInOrder ==
    \A j \in DOMAIN dep_group_recipes :
      LET tx == txs[Len(cell_recipes) + j]
          names == config.dep_groups[j].cells
          decoded == UnpackOutPoints(tx.outputs_data[1])
      IN /\ Len(decoded) = Len(names)
         /\ \A i \in DOMAIN names :
              LET cell == ConfiguredCell(names[i])
              IN IF cell.location.kind = "File"
                 THEN \E r \in Range(cell_recipes) :
                        /\ r.name = names[i]
                        /\ decoded[i] = [tx_hash |-> r.tx_hash, index |-> 0]
                 ELSE decoded[i] = [tx_hash |-> cell.location.tx_hash,
                                    index |-> cell.location.index]

\* a dep group of two cells, listed against configuration order: one located
\* by out-point, one built in this run
C10_Witness ==
    \E j \in DOMAIN dep_group_recipes :
      LET names == config.dep_groups[j].cells
      IN /\ Len(names) = 2
         /\ ConfiguredCell(names[1]).location.kind = "OutPoint"
         /\ ConfiguredCell(names[2]).location.kind = "File"
         /\ ConfiguredCell(names[1]).location.index > 0


\* whether an output carries a type-id script
CarriesTypeId(output) ==
    /\ output.type_ # <<>>
    /\ output.type_[1].code_hash = "TYPE_ID"
    /\ output.type_[1].hash_type = "type"

\* the output an input of a batch transaction spends
SpentOutput(inp) == HashOutputs(inp.tx_hash)[inp.index + 1]

\* the cell recipes of the cells configured with enable_type_id
TypeIdRecipes ==
    {i \in DOMAIN cell_recipes : ConfiguredCell(cell_recipes[i].name).enable_type_id}

(***************************************************************************)
(* C11: for a cell with enable_type_id, the pre-selected input is the      *)
(* first input; when the output spent by the first input carries a type-id *)
(* script, the new principal output carries that script unchanged and the  *)
(* recipe's type_id is its hash; a new type-id is derived, from the first  *)
(* input and output index 0, only when no input spends an output carrying  *)
(* a type-id script.                                                       *)
(***************************************************************************)
C11_TypeIdInheritedFromFundingInput ==
    \A i \in TypeIdRecipes :
      LET tx == txs[i]
          first == tx.inputs[1]
          pre == PreSelectedFor(cell_recipes[i].name)
          derived == [code_hash |-> "TYPE_ID", hash_type |-> "type", args |-> <<first, 0>>]
      IN /\ tx.inputs # <<>>
         /\ pre # <<>> => first = [tx_hash |-> pre[1].tx_hash, index |-> pre[1].index]
         /\ IF CarriesTypeId(SpentOutput(first))
            THEN /\ tx.outputs[1].type_ = SpentOutput(first).type_
                 /\ cell_recipes[i].type_id =
                      <<[script_hash_of |-> SpentOutput(first).type_[1]]>>
            ELSE /\ \A inp \in Range(tx.inputs) : ~CarriesTypeId(SpentOutput(inp))
                 /\ tx.outputs[1].type_ = <<derived>>
                 /\ cell_recipes[i].type_id = <<[script_hash_of |-> derived]>>

\* a type-id cell is redeployed from the cell an earlier run deployed, with
\* the change of the preceding transaction as a second input
C11_Witness ==
    \E i \in TypeIdRecipes :
      /\ PreSelectedFor(cell_recipes[i].name) # <<>>
      /\ Len(txs[i].inputs) >= 2
      /\ CarriesTypeId(SpentOutput(txs[i].inputs[1]))
      /\ cell_recipes[i].type_id = <<[script_hash_of |-> PriorTypeId]>>

(***************************************************************************)
(* C12: a cell recipe has a type_id exactly when its cell is configured    *)
(* with enable_type_id, and the first output of its transaction has a type *)
(* script exactly then; the first output of a dep group transaction never  *)
(* has a type script.                                                      *)
(***************************************************************************)
C12_TypeIdIffEnabled ==
    /\ \A i \in DOMAIN cell_recipes :
         LET enabled == ConfiguredCell(cell_recipes[i].name).enable_type_id
         IN /\ (cell_recipes[i].type_id # <<>>) <=> enabled
            /\ (txs[i].outputs[1].type_ # <<>>) <=> enabled
    /\ \A j \in DOMAIN dep_group_recipes :
         txs[Len(cell_recipes) + j].outputs[1].type_ = <<>>

\* a batch with a type-id cell, a cell without type-id and a dep group
C12_Witness ==
    /\ dep_group_recipes # <<>>
    /\ TypeIdRecipes # {}
    /\ TypeIdRecipes # DOMAIN cell_recipes

(***************************************************************************)
(* C13: when the build reaches a dep group that lists a name no configured *)
(* cell has, prepare_recipe returns an error (not a panic) of kind "cell   *)
(* not found" naming the first such name and the dep group, with no recipe *)
(* and no transactions; no recipe is ever made for such a dep group and    *)
(* nothing is submitted.                                                   *)
(***************************************************************************)
C13_UnknownCellNameIsAnError ==
    LET declared == {config.cells[i].name : i \in DOMAIN config.cells}
        unknown(j) == {n \in DOMAIN config.dep_groups[j].cells :
                          config.dep_groups[j].cells[n] \notin declared}
        reached == Len(dep_group_recipes) + 1
    IN /\ \A j \in DOMAIN dep_group_recipes : unknown(j) = {}
       /\ (/\ pc \notin {"check_pre_inputs", "load", "build_recipe"}
           /\ Len(cell_recipes) = Len(cells)
           /\ result.status # "ok"
           /\ result.error.kind \notin {"unlockable", "io", "tx_check"}
           /\ reached <= Len(config.dep_groups)
           /\ unknown(reached) # {})
          => /\ result.status = "err"
             /\ result.error = [kind |-> "cell not found",
                                name |-> config.dep_groups[reached].cells[Min(unknown(reached))],
                                group |-> config.dep_groups[reached].name]
             /\ result.recipe = NoRecipe /\ result.txs = <<>>
             /\ run = 0
             /\ \A c \in Range(calls) : ~IsSend(c)
             /\ chain = PriorChain
       /\ result.error.kind = "cell not found" =>
            /\ reached <= Len(config.dep_groups)
            /\ unknown(reached) # {}

\* the build fails at a dep group with an unknown name after a cell was built
C13_Witness ==
    /\ pc = "returned"
    /\ result.error.kind = "cell not found"
    /\ result.error.name = UnknownName
    /\ cell_recipes # <<>>


(***************************************************************************)
(* C14, as stated: when the coin selection asked for by a cell with        *)
(* enable_type_id and no candidate inputs finds no cell, prepare_recipe    *)
(* returns an error result, not a panic, with no recipe and no             *)
(* transactions.                                                           *)
(***************************************************************************)
C14_FundingFailureIsAnErrorResult ==
    (\E c \in Range(calls) : c.op = "collect_live_cells" /\ c.res = "none") =>
      /\ pc = "returned"
      /\ result.status = "err"
      /\ result.recipe = NoRecipe
      /\ result.txs = <<>>

(***************************************************************************)
(* C16, as stated: a cell with enable_type_id that is not the first of the *)
(* batch and has no pre-selected input is built from the change of the     *)
(* preceding transaction, which the ledger does not know: unless the       *)
(* ledger RPC itself fails, its transaction is built, its first input is   *)
(* the first change output and its type-id is derived from that input.     *)
(***************************************************************************)
C16_TypeIdCellBuiltFromUnconfirmedChange ==
    \A k \in 2..Len(cells) :
      (/\ cells[k][1].enable_type_id
       /\ PreSelectedFor(cells[k][1].name) = <<>>
       /\ Len(txs) >= k - 1
       /\ ChangeCells(txs[k - 1]) # <<>>
       /\ TxHash(txs[k - 1]) \notin chain
       /\ pc = "returned"
       /\ result.error.kind # "ledger")
      => /\ Len(cell_recipes) >= k
         /\ txs[k].inputs[1] = [tx_hash |-> TxHash(txs[k - 1]),
                                index |-> ChangeCells(txs[k - 1])[1].index]
         /\ txs[k].outputs[1].type_ =
              <<[code_hash |-> "TYPE_ID", hash_type |-> "type",
                 args |-> <<txs[k].inputs[1], 0>>]>>


\* the configuration declares no cell and no dep group
EmptyConfig == config.cells = <<>> /\ config.dep_groups = <<>>

(***************************************************************************)
(* C15, as stated: with no cells and no dep groups prepare_recipe returns  *)
(* a recipe with two empty lists and no transactions, and the only calls   *)
(* it makes are those of the check of the pre-selected inputs.             *)
(***************************************************************************)
C15_EmptyConfigReturnsEmptyRecipe ==
    (EmptyConfig /\ pc = "returned") =>
      /\ result = [status |-> "ok", error |-> NoError,
                   recipe |-> [cell_recipes |-> <<>>, dep_group_recipes |-> <<>>],
                   txs |-> <<>>]
      /\ \A c \in Range(calls) : c.op = "get_cell_output"

(***************************************************************************)
(* C15, amended: with no cells and no dep groups the only calls            *)
(* prepare_recipe makes are those of the check of the pre-selected inputs  *)
(* (no file is read, no coin is selected, nothing is reserved, queried or  *)
(* submitted); when every pre-selected input is locked by the wallet's     *)
(* lock it returns a recipe with two empty lists and no transactions, and  *)
(* otherwise the error of the check.                                       *)
(***************************************************************************)
C15_EmptyConfigReturnsEmptyRecipeIfUnlockable ==
    EmptyConfig =>
      /\ \A c \in Range(calls) : c.op = "get_cell_output"
      /\ Len(calls) <= Len(pre_inputs)
      /\ locked = {} /\ chain = PriorChain /\ txs = <<>>
      /\ pc = "returned" =>
           IF MismatchedNames = {}
           THEN result = [status |-> "ok", error |-> NoError,
                          recipe |-> [cell_recipes |-> <<>>, dep_group_recipes |-> <<>>],
                          txs |-> <<>>]
           ELSE /\ result.status = "err"
                /\ result.error.kind = "unlockable"
                /\ result.recipe = NoRecipe /\ result.txs = <<>>

\* the empty configuration returns its empty recipe although the payload
\* file is unreadable and a pre-selected input was checked
C15_Witness ==
    /\ EmptyConfig
    /\ pc = "returned"
    /\ result.status = "ok"
    /\ ~file.readable
    /\ Len(calls) = 1

(***************************************************************************)
(* C17, as stated: search_changes returns outputs of index 1 or more only, *)
(* so output 0 of transaction k, its principal output, is never among the  *)
(* candidate inputs of transaction k+1 and never spent by it.              *)
(***************************************************************************)
C17_PrincipalOutputNeverOffered ==
    \A k \in 2..Len(txs) :
      /\ \A c \in Range(offered[k]) : c.tx_hash = TxHash(txs[k - 1]) => c.index >= 1
      /\ \A inp \in Range(txs[k].inputs) :
           inp.tx_hash = TxHash(txs[k - 1]) => inp.index >= 1


\* the calls of the wallet's coin selection made by the cell builder
CoinSelections == {n \in DOMAIN calls : calls[n].op = "collect_live_cells"}

\* the cells built with enable_type_id and without any candidate input
SeededByWallet ==
    {k \in TypeIdRecipes : offered[k] = <<>>}

\* the build stopped at a cell with enable_type_id and without candidate input
StoppedAtSeededCell ==
    /\ pc = "returned" /\ result.status # "ok"
    /\ Len(cell_recipes) < Len(cells)
    /\ LET cell == cells[Len(cell_recipes) + 1][1]
       IN /\ cell.enable_type_id
          /\ PreSelectedFor(cell.name) = <<>>
          /\ txs # <<>> => ChangeCells(txs[Len(txs)]) = <<>>

(***************************************************************************)
(* C18: the inputs of every transaction begin with the candidate inputs    *)
(* its builder was offered, as supplied and in order: the pre-selected     *)
(* input first, then the change outputs of the preceding transaction by    *)
(* increasing output index; this holds for cells and dep groups.  The cell *)
(* builder asks the wallet's coin selection exactly for the cells with     *)
(* enable_type_id that have no candidate input.                            *)
(***************************************************************************)
C18_CandidatesConsumedInOrder ==
    /\ \A k \in DOMAIN txs :
         LET n == Len(offered[k])
             pre == PreSelectedFor(ArtifactOf(k))
         IN /\ Len(txs[k].inputs) >= n
            /\ \A a \in 1..n :
                 txs[k].inputs[a] = [tx_hash |-> offered[k][a].tx_hash,
                                     index |-> offered[k][a].index]
            /\ pre # <<>> => (n >= 1 /\ offered[k][1] = pre[1])
            /\ \A a, b \in (Len(pre) + 1)..n :
                 a < b => /\ offered[k][a].tx_hash = offered[k][b].tx_hash
                          /\ offered[k][a].index < offered[k][b].index
    /\ Cardinality(CoinSelections) =
         Cardinality(SeededByWallet) + (IF StoppedAtSeededCell THEN 1 ELSE 0)

\* one transaction was seeded by the wallet's coin selection and a later one
\* consumes its pre-selected input followed by the change of its predecessor
C18_Witness ==
    /\ SeededByWallet # {}
    /\ \E k \in DOMAIN txs :
         /\ Len(offered[k]) = 2
         /\ PreSelectedFor(ArtifactOf(k)) # <<>>
         /\ txs[k].inputs[2].tx_hash = TxHash(txs[k - 1])


\* the positions in config.cells of the file-located cells, in order
FileCellIndexes ==
    SortedSeq({i \in DOMAIN config.cells : config.cells[i].location.kind = "File"})

\* build_recipe has returned Ok: prepare_recipe returned its result, or the
\* error of tx_check
BuildRecipeSucceeded ==
    /\ pc = "returned"
    /\ \/ result.status = "ok"
       \/ result.error.kind = "tx_check"

(***************************************************************************)
(* C19: after a successful build_recipe there is one transaction per       *)
(* file-located cell followed by one per dep group; the i-th cell recipe   *)
(* is that of the i-th file-located cell and holds the hash of the i-th    *)
(* transaction; the j-th dep group recipe is that of the j-th dep group    *)
(* and holds the hash of transaction (number of cell recipes + j); every   *)
(* recipe has index 0; a cell located by out-point has no recipe and no    *)
(* transaction; what prepare_recipe returns on success is this pair.       *)
(***************************************************************************)
C19_RecipeMatchesTransactions ==
    BuildRecipeSucceeded =>
      /\ Len(cell_recipes) = Len(FileCellIndexes)
      /\ Len(dep_group_recipes) = Len(config.dep_groups)
      /\ Len(txs) = Len(FileCellIndexes) + Len(config.dep_groups)
      /\ \A i \in DOMAIN cell_recipes :
           /\ cell_recipes[i].name = config.cells[FileCellIndexes[i]].name
           /\ cell_recipes[i].tx_hash = TxHash(txs[i])
           /\ cell_recipes[i].index = 0
      /\ \A j \in DOMAIN dep_group_recipes :
           /\ dep_group_recipes[j].name = config.dep_groups[j].name
           /\ dep_group_recipes[j].tx_hash = TxHash(txs[Len(cell_recipes) + j])
           /\ dep_group_recipes[j].index = 0
      /\ \A c \in Range(config.cells) :
           c.location.kind = "OutPoint" =>
             \A r \in Range(cell_recipes) : r.name # c.name
      /\ result.status = "ok" =>
           /\ result.txs = txs
           /\ result.recipe = [cell_recipes |-> cell_recipes,
                               dep_group_recipes |-> dep_group_recipes]

\* a successful build of a configuration whose first cell is located by
\* out-point and is followed by a file-located cell and a dep group
C19_Witness ==
    /\ pc = "returned" /\ result.status = "ok"
    /\ Len(config.cells) = 2
    /\ config.cells[1].location.kind = "OutPoint"
    /\ Len(cell_recipes) = 1
    /\ Len(dep_group_recipes) = 1
    /\ Len(result.txs) = 2


\* the hashes of the transactions supplied to the current execute_recipe call
SuppliedHashes == {TxHash(signed[i]) : i \in DOMAIN signed}

\* the recipe hashes in the order execute_recipe walks them
RecipeHashes ==
    [i \in DOMAIN cell_recipes |-> cell_recipes[i].tx_hash]
      \o [j \in DOMAIN dep_group_recipes |-> dep_group_recipes[j].tx_hash]

SentInThisCall(h) == \E c \in Range(calls) : IsSend(c) /\ c.run = run /\ c.hash = h

SkippedInThisCall(h) ==
    \E c \in Range(calls) : IsExecQuery(c) /\ c.run = run /\ c.hash = h /\ c.res = "some"

(***************************************************************************)
(* C20: every transaction execute_recipe submits is the transaction of the *)
(* supplied list that has the recipe's hash; when the recipe whose         *)
(* transaction is to be submitted has no transaction of its hash in the    *)
(* list, the call stops with a panic before submitting it, and it stops    *)
(* for this reason only; for a dep group the panic comes only after the    *)
(* query found nothing, and a dep group that is skipped because the ledger *)
(* knows its transaction is passed without a lookup, so a call can return  *)
(* Ok although the list lacks that transaction.                            *)
(***************************************************************************)
C20_MissingTransactionStopsTheCall ==
    pc \in {"execute_recipe", "exec_returned"} =>
      /\ \A c \in Range(calls) :
           (IsSend(c) /\ c.run = run) => c.hash \in SuppliedHashes
      /\ \A i \in 1..done :
           /\ i <= Len(cell_recipes) =>
                (RecipeHashes[i] \in SuppliedHashes /\ SentInThisCall(RecipeHashes[i]))
           /\ i > Len(cell_recipes) =>
                \/ SkippedInThisCall(RecipeHashes[i])
                \/ RecipeHashes[i] \in SuppliedHashes /\ SentInThisCall(RecipeHashes[i])
      /\ exec_result = "panic" =>
           /\ pc = "exec_returned"
           /\ done < Len(RecipeHashes)
           /\ RecipeHashes[done + 1] \notin SuppliedHashes
           /\ ~SentInThisCall(RecipeHashes[done + 1])
           /\ done >= Len(cell_recipes) =>
                calls[Len(calls)] = [op |-> "query_transaction", run |-> run,
                                     hash |-> RecipeHashes[done + 1], res |-> "none"]
      /\ (pc = "exec_returned" /\ exec_result = "ok") => done = Len(RecipeHashes)
      /\ (pc = "exec_returned" /\ exec_result = "err") =>
           (calls # <<>> /\ calls[Len(calls)].res = "err")

\* a call that is handed a list lacking two dep group transactions passes
\* the one the ledger knows and panics at the one it does not know
C20_Witness ==
    /\ exec_result = "panic"
    /\ done > Len(cell_recipes)
    /\ RecipeHashes[done] \notin SuppliedHashes
    /\ SkippedInThisCall(RecipeHashes[done])
    /\ \E c \in Range(calls) : IsSend(c) /\ c.run = run

=============================================================================
